---- MODULE Spec2Model ----
(***************************************************************************)
(* Model of src/main.ts: the paste service's four route handlers over the  *)
(* users/pastes tables, the rateLimiter middleware and its rateLimitMap,   *)
(* and the order in which the application registers its middleware.        *)
(*                                                                         *)
(* The program runs on one JavaScript event loop: code between two awaits  *)
(* runs atomically, and a handler suspended at an await interleaves with   *)
(* every other request.  Each action below is one such atomic stretch.     *)
(* A store query is executed by the store at the step that resumes the     *)
(* handler awaiting it.                                                    *)
(***************************************************************************)
EXTENDS Integers, FiniteSets, Sequences, Bags, TLC

(* ------------------------------ bounds --------------------------------- *)
\* number of handlers that can be suspended at an await at the same time
MaxInFlight == 2
\* the clock runs over the instants of windows 0..MaxWindows
MaxWindows == 1
\* requests one client key sends to the limiter between two window resets
MaxPerWindow == 12

(* ------------------------- program constants --------------------------- *)
RATE_LIMIT_WINDOW == 10 * 1000
MAX_REQUESTS == 10

(* ------------------------------ inputs --------------------------------- *)
Clients == {"ip1", "ip2"}
\* identifiers generateId can return (each stands for a 16-character string)
Ids == {"A", "B"}
\* the (content, format) pairs a create-paste body carries
Payloads == {[content |-> "x", format |-> "txt"], [content |-> "y", format |-> "md"]}
\* the ids of users in the store specification: what generateId returns to
\* create-user, and what requests name as owner (no user before it is created)
NewUserIds == {"A"}
\* JavaScript null / undefined, as the body's userid when the field is absent
JsNull == "null"
UserIdInputs == Ids \cup {JsNull}
\* offsets inside a window at which the clock is observed
Offsets == {0, 1, RATE_LIMIT_WINDOW \div 2}
Instants == {k * RATE_LIMIT_WINDOW + o : k \in 0..MaxWindows, o \in Offsets}

VARIABLES
    now,            \* the value Date.now() returns
    rateLimitMap,   \* Map<string, ClientData>: a function on the keys it holds
    users,          \* rows of table users
    pastes,         \* rows of table pastes
    reqs,           \* the bag of handlers suspended at an await, with their locals
    resp,           \* the response sent last, with the request it answers
    admitted,       \* history: requests a key had admitted since its last reset
    arrived,        \* history: requests a key sent to rateLimiter since its last reset
    issuedUsers,    \* history: ids create-user answered with status 200
    issuedPastes    \* history: (id, content, format, userid) create-paste answered 200

vars == <<now, rateLimitMap, users, pastes, reqs, resp, admitted, arrived,
          issuedUsers, issuedPastes>>

(* ------------------------- JavaScript values --------------------------- *)
\* the object an async function returns when it is called without await
PromiseObject == "[object Promise]"
\* JavaScript's !v
Falsy(v) == v \in {"", JsNull, "undefined", "false"}

(* ------------------------------ store ---------------------------------- *)
UserIds == {u.id : u \in users}
PasteIds == {p.id : p \in pastes}

SelectUsersById(id) == {u \in users : u.id = id}
\* mutant: the WHERE clause is lost
SelectPastesAll(id) == pastes
SelectPastesById(id) == {p \in pastes : p.id = id}
\* mutant: the owner column is compared with nothing
SelectPastesAnyOwner(id) == pastes
SelectPastesByUserid(id) == {p \in pastes : p.userid = id}

\* mutant: no primary key on users.id
InsertUserAcceptedNoKey(row) == TRUE
\* PRIMARY KEY on users.id
InsertUserAccepted(row) == row.id \notin UserIds
\* mutant: the INSERT is an upsert, the primary key refuses nothing
InsertPasteAcceptedNoKey(row) == row.userid = JsNull \/ row.userid \in UserIds
\* PRIMARY KEY on pastes.id, userid REFERENCES users(id)
InsertPasteAccepted(row) ==
    /\ row.id \notin PasteIds
    /\ (row.userid = JsNull \/ row.userid \in UserIds)

UserRow(id, timestamp) == [id |-> id, timestamp |-> timestamp]
PasteRow(id, content, format, timestamp, userid) ==
    [id |-> id, content |-> content, format |-> format,
     timestamp |-> timestamp, userid |-> userid]

\* mutant: the length check is lost
ValidateUserNoLengthCheck(ok, rows) == ok
\* mutant: the length check is inverted
ValidateUserInverted(ok, rows) == ok /\ Cardinality(rows) = 0
\* mutant: the catch block returns true
ValidateUserFailOpen(ok, rows) == ~ok \/ Cardinality(rows) # 0
\* validateUser after its query came back: ok = the query did not throw
ValidateUserResult(ok, rows) ==
    IF ~ok THEN FALSE
    ELSE IF Cardinality(rows) = 0 THEN FALSE
    ELSE TRUE

(* --------------------------- rate limiter ------------------------------ *)
ClientData(count, lastRequestTime) ==
    [count |-> count, lastRequestTime |-> lastRequestTime]
\* rateLimitMap.get(k) of a key the map does not hold
NoClientData == ClientData(0, -1)
MapGet(m, k) == IF k \in DOMAIN m THEN m[k] ELSE NoClientData
\* mutant: one record shared by every key of the map
MapSetShared(m, k, v) == [x \in DOMAIN m \cup {k} |-> v]
MapSet(m, k, v) == [x \in DOMAIN m \cup {k} |-> IF x = k THEN v ELSE m[x]]

\* mutant: the window is taken twice as long
WindowExpiredDoubled(clientData, timestamp) ==
    timestamp > (clientData.lastRequestTime + 2 * RATE_LIMIT_WINDOW)
\* mutant: the window ends one millisecond early, at lastRequestTime + window
WindowExpiredInclusive(clientData, timestamp) ==
    timestamp >= (clientData.lastRequestTime + RATE_LIMIT_WINDOW)
WindowExpired(clientData, timestamp) ==
    timestamp > (clientData.lastRequestTime + RATE_LIMIT_WINDOW)
\* mutant: the limit is tested one request late
OverLimitLate(clientData) == clientData.count > MAX_REQUESTS + 1
OverLimit(clientData) == clientData.count > MAX_REQUESTS
ResetData(timestamp) == ClientData(1, timestamp)
\* mutant: the incremented count is not written back
IncrementDataLost(clientData) ==
    ClientData(clientData.count, clientData.lastRequestTime)
IncrementData(clientData) ==
    ClientData(clientData.count + 1, clientData.lastRequestTime)

\* the branch of rateLimiter's if / else if / else
RateLimiterBranch(m, clientIp, timestamp) ==
    IF clientIp \notin DOMAIN m \/ WindowExpired(m[clientIp], timestamp)
    THEN "reset"
    ELSE IF OverLimit(m[clientIp]) THEN "reject"
    ELSE "increment"

\* mutant: the count is incremented before the limit is tested
RateLimiterMapCountsRejected(m, clientIp, timestamp) ==
    CASE RateLimiterBranch(m, clientIp, timestamp) = "reset" ->
            MapSet(m, clientIp, ResetData(timestamp))
      [] OTHER -> MapSet(m, clientIp, IncrementData(m[clientIp]))
RateLimiterMap(m, clientIp, timestamp) ==
    CASE RateLimiterBranch(m, clientIp, timestamp) = "reset" ->
            MapSet(m, clientIp, ResetData(timestamp))
      [] RateLimiterBranch(m, clientIp, timestamp) = "reject" -> m
      [] OTHER -> MapSet(m, clientIp, IncrementData(m[clientIp]))

(* ----------------------- middleware registration ----------------------- *)
Routes == {"create-user", "create-paste", "read-paste", "read-pastes"}
\* a request no route of the router matches
Unrouted == "none"
MiddlewareOrder == <<"router.routes", "router.allowedMethods", "rateLimiter">>
\* whether a middleware hands the request on to the next one: router.routes
\* runs the matching handler, which never calls next, and calls next when no
\* route matches; rateLimiter calls next unless it rejects
CallsNext(middleware, route, branch) ==
    CASE middleware = "router.routes" -> route \notin Routes
      [] middleware = "router.allowedMethods" -> TRUE
      [] OTHER -> branch # "reject"
\* the middleware a request to `route` runs through, in order
RECURSIVE Chain(_, _, _)
Chain(i, route, branch) ==
    IF i > Len(MiddlewareOrder) THEN <<>>
    ELSE IF CallsNext(MiddlewareOrder[i], route, branch)
         THEN <<MiddlewareOrder[i]>> \o Chain(i + 1, route, branch)
         ELSE <<MiddlewareOrder[i]>>
Runs(middleware, route, branch) ==
    \E i \in 1..Len(Chain(1, route, branch)) :
        Chain(1, route, branch)[i] = middleware
\* rateLimiter's verdict on a request, "skipped" when the chain ends before it
Verdict(route, clientIp) ==
    LET branch == RateLimiterBranch(rateLimitMap, clientIp, now)
    IN IF Runs("rateLimiter", route, branch) THEN branch ELSE "skipped"
\* the route's handler runs: router.routes is reached and the route matches
HandlerRuns(route, clientIp) ==
    /\ route \in Routes
    /\ Runs("router.routes", route, Verdict(route, clientIp))

(* ------------------------------ requests ------------------------------- *)
\* a handler's request and locals; pc names the await it is suspended at
Request(route, ip, limiter) ==
    [pc |-> "start", route |-> route, ip |-> ip, id |-> "", content |-> "",
     format |-> "", userid |-> "", timestamp |-> 0, limiter |-> limiter]

\* status 0: nothing sent yet.  failed, seen and before are history: a store
\* query of the request threw; the record rateLimiter read for the key; the
\* requests the key had sent to rateLimiter in the window it found
NoResponse ==
    [route |-> Unrouted, ip |-> "", id |-> "", userid |-> "", timestamp |-> 0,
     status |-> 0, body |-> "", rows |-> {}, limiter |-> "skipped",
     failed |-> FALSE, seen |-> NoClientData, before |-> 0]

\* ctx.response of request req, as it is sent
Response(req, status, body, rows, failed) ==
    [route |-> req.route, ip |-> req.ip, id |-> req.id, userid |-> req.userid,
     timestamp |-> req.timestamp, status |-> status, body |-> body,
     rows |-> rows, limiter |-> req.limiter, failed |-> failed,
     seen |-> NoClientData, before |-> 0]

Suspended == BagToSet(reqs)
\* one more handler can suspend
Room == BagCardinality(reqs) < MaxInFlight
Suspend(req) == reqs' = reqs (+) SetToBag({req})
Finish(req) == reqs' = reqs (-) SetToBag({req})
Continue(req, next) == reqs' = (reqs (-) SetToBag({req})) (+) SetToBag({next})

Init ==
    /\ now = 0
    /\ rateLimitMap = <<>>
    /\ users = {}
    /\ pastes = {}
    /\ reqs = EmptyBag
    /\ resp = NoResponse
    /\ admitted = [k \in Clients |-> 0]
    /\ arrived = [k \in Clients |-> 0]
    /\ issuedUsers = {}
    /\ issuedPastes = {}

(* ------------------------------ the clock ------------------------------ *)
Tick(t) ==
    /\ t > now
    /\ now' = t
    /\ UNCHANGED <<rateLimitMap, users, pastes, reqs, resp, admitted, arrived,
                   issuedUsers, issuedPastes>>

(* ------------------- a request enters the middleware ------------------- *)
\* what the chain does to rateLimitMap before a handler suspends or the
\* response is sent, with the history of the key's window
ThroughChain(route, ip) ==
    LET branch == Verdict(route, ip)
    IN /\ rateLimitMap' = IF branch = "skipped" THEN rateLimitMap
                          ELSE RateLimiterMap(rateLimitMap, ip, now)
       /\ admitted' = [admitted EXCEPT ![ip] =
             CASE branch = "reset" -> 1
               [] branch = "increment" -> @ + 1
               [] OTHER -> @]
       /\ arrived' = [arrived EXCEPT ![ip] =
             CASE branch = "reset" -> 1
               [] branch = "skipped" -> @
               [] OTHER -> @ + 1]

NewRequest(route, ip) == Request(route, ip, Verdict(route, ip))

\* a request no route matches: router.routes and allowedMethods call next and
\* rateLimiter runs; its next() is the end of the chain, so an admitted request
\* keeps the default status 404
Unmatched(ip) ==
    /\ arrived[ip] < MaxPerWindow \/ Verdict(Unrouted, ip) = "reset"
    /\ ThroughChain(Unrouted, ip)
    /\ LET req == [NewRequest(Unrouted, ip) EXCEPT !.timestamp = now]
           sent == IF req.limiter = "reject"
                   THEN Response(req, 429, "You're being rate limited. Try again later", {}, FALSE)
                   ELSE Response(req, 404, "", {}, FALSE)
       IN resp' = [sent EXCEPT !.seen = MapGet(rateLimitMap, ip),
                               !.before = arrived[ip]]
    /\ UNCHANGED <<now, users, pastes, reqs, issuedUsers, issuedPastes>>

(* ------------------------------ create-user ---------------------------- *)
\* the handler up to its await: generateId(), Date.now(), the INSERT is sent
CreateUserBegin(ip, id) ==
    /\ Room
    /\ HandlerRuns("create-user", ip)
    /\ ThroughChain("create-user", ip)
    /\ Suspend([NewRequest("create-user", ip) EXCEPT
                   !.pc = "insert", !.id = id, !.timestamp = now])
    /\ UNCHANGED <<now, users, pastes, resp, issuedUsers, issuedPastes>>

\* the INSERT runs at the store (ok = the store can be reached) and the handler
\* resumes: catch -> 400, else 200 with the id
CreateUserInsert(req, ok) ==
    /\ req.pc = "insert"
    /\ req.route = "create-user"
    /\ LET row == UserRow(req.id, req.timestamp)
           done == ok /\ InsertUserAccepted(row)
       IN /\ users' = IF done THEN users \cup {row} ELSE users
          /\ resp' = IF done THEN Response(req, 200, req.id, {}, FALSE)
                     ELSE Response(req, 400,
                            "Couldn't create user for some reason, ask devs to check the logs",
                            {}, TRUE)
          /\ issuedUsers' = IF done THEN issuedUsers \cup {req.id}
                            ELSE issuedUsers
    /\ Finish(req)
    /\ UNCHANGED <<now, rateLimitMap, pastes, admitted, arrived, issuedPastes>>

(* ------------------------------ create-paste --------------------------- *)
\* the handler up to its first store query: the body is parsed (this await
\* touches no shared state, so the step runs through it), generateId(),
\* Date.now(), then the branch on !userid: the ownerless INSERT is sent, or
\* validateUser(userid) sends its SELECT
CreatePasteBegin(ip, content, format, userid, id) ==
    /\ Room
    /\ HandlerRuns("create-paste", ip)
    /\ ThroughChain("create-paste", ip)
    /\ Suspend([NewRequest("create-paste", ip) EXCEPT
                   !.pc = IF Falsy(userid) THEN "insert" ELSE "validate",
                   !.content = content, !.format = format, !.userid = userid,
                   !.id = id, !.timestamp = now])
    /\ UNCHANGED <<now, users, pastes, resp, issuedUsers, issuedPastes>>

\* validateUser's SELECT runs and the handler resumes: 403 when it is false,
\* else the INSERT with the owner is sent
CreatePasteValidate(req, ok) ==
    /\ req.pc = "validate"
    /\ IF ~ValidateUserResult(ok, SelectUsersById(req.userid))
       THEN /\ resp' = Response(req, 403,
                          "You are not authorized to make this paste.", {}, ~ok)
            /\ Finish(req)
       ELSE /\ Continue(req, [req EXCEPT !.pc = "insert"])
            /\ resp' = resp
    /\ UNCHANGED <<now, rateLimitMap, users, pastes, admitted, arrived,
                   issuedUsers, issuedPastes>>

\* mutant: content and format are bound to each other's column
CreatePasteRowSwapped(req) ==
    PasteRow(req.id, req.format, req.content, req.timestamp,
             IF Falsy(req.userid) THEN JsNull ELSE req.userid)
\* the row either INSERT of create-paste writes: without userid the column is NULL
CreatePasteRow(req) ==
    PasteRow(req.id, req.content, req.format, req.timestamp,
             IF Falsy(req.userid) THEN JsNull ELSE req.userid)

\* the INSERT runs and the handler resumes: catch -> 400, else 200 with the id
CreatePasteInsert(req, ok) ==
    /\ req.pc = "insert"
    /\ req.route = "create-paste"
    /\ LET row == CreatePasteRow(req)
           done == ok /\ InsertPasteAccepted(row)
       IN /\ pastes' = IF done THEN pastes \cup {row} ELSE pastes
          /\ resp' = IF done THEN Response(req, 200, req.id, {}, FALSE)
                     ELSE Response(req, 400,
                            "Couldn't create paste for some reason, ask devs to check the logs",
                            {}, TRUE)
          /\ issuedPastes' =
                IF done
                THEN issuedPastes \cup
                       {[id |-> req.id, content |-> req.content,
                         format |-> req.format, userid |-> req.userid]}
                ELSE issuedPastes
    /\ Finish(req)
    /\ UNCHANGED <<now, rateLimitMap, users, admitted, arrived, issuedUsers>>

(* ------------------------------ read-paste ----------------------------- *)
\* status, message and rows of the response of either read handler once its
\* SELECT came back: catch -> 403, no row -> 404, else 200 with the rows
ReadOutcome(ok, rows, notFound) ==
    IF ~ok
    THEN [status |-> 403, rows |-> {},
          body |-> "Couldn't execute read paste SQL for some reason, ask devs to check the logs"]
    ELSE IF Cardinality(rows) = 0
    THEN [status |-> 404, body |-> notFound, rows |-> {}]
    ELSE [status |-> 200, body |-> "", rows |-> rows]

\* the handler up to its await: 400 without an id, else the SELECT is sent
ReadPasteBegin(ip, id) ==
    /\ Room
    /\ HandlerRuns("read-paste", ip)
    /\ ThroughChain("read-paste", ip)
    /\ LET req == [NewRequest("read-paste", ip) EXCEPT !.id = id]
       IN IF Falsy(id)
          THEN /\ resp' = Response(req, 400, "Must pass an id string", {}, FALSE)
               /\ reqs' = reqs
          ELSE /\ Suspend([req EXCEPT !.pc = "select"])
               /\ resp' = resp
    /\ UNCHANGED <<now, users, pastes, issuedUsers, issuedPastes>>

ReadPasteSelect(req, ok) ==
    /\ req.pc = "select"
    /\ req.route = "read-paste"
    /\ LET out == ReadOutcome(ok, SelectPastesById(req.id), "No paste with id found")
       IN resp' = Response(req, out.status, out.body, out.rows, ~ok)
    /\ Finish(req)
    /\ UNCHANGED <<now, rateLimitMap, users, pastes, admitted, arrived,
                   issuedUsers, issuedPastes>>

(* ------------------------------ read-pastes ---------------------------- *)
\* the value of the expression validateUser(id) in `if (!validateUser(id))`:
\* the call is not awaited, so it is the promise (its SELECT reads users and
\* its result goes nowhere)
ReadPastesValidation(id) == PromiseObject

\* the handler up to its await: 400 without an id, 403 when the validation
\* expression is falsy, else the SELECT is sent
ReadPastesBegin(ip, id) ==
    /\ Room
    /\ HandlerRuns("read-pastes", ip)
    /\ ThroughChain("read-pastes", ip)
    /\ LET req == [NewRequest("read-pastes", ip) EXCEPT !.id = id]
       IN IF Falsy(id)
          THEN /\ resp' = Response(req, 400, "Must pass an id string", {}, FALSE)
               /\ reqs' = reqs
          ELSE IF Falsy(ReadPastesValidation(id))
          THEN /\ resp' = Response(req, 403, "You are not authorized to read this profile", {}, FALSE)
               /\ reqs' = reqs
          ELSE /\ Suspend([req EXCEPT !.pc = "select"])
               /\ resp' = resp
    /\ UNCHANGED <<now, users, pastes, issuedUsers, issuedPastes>>

ReadPastesSelect(req, ok) ==
    /\ req.pc = "select"
    /\ req.route = "read-pastes"
    /\ LET out == ReadOutcome(ok, SelectPastesByUserid(req.id), "No user with id found")
       IN resp' = Response(req, out.status, out.body, out.rows, ~ok)
    /\ Finish(req)
    /\ UNCHANGED <<now, rateLimitMap, users, pastes, admitted, arrived,
                   issuedUsers, issuedPastes>>

(* --------------------------- specifications ---------------------------- *)
\* the whole program
Next ==
    \/ \E t \in Instants : Tick(t)
    \/ \E ip \in Clients : Unmatched(ip)
    \/ \E ip \in Clients, id \in Ids : CreateUserBegin(ip, id)
    \/ \E req \in Suspended, ok \in BOOLEAN : CreateUserInsert(req, ok)
    \/ \E ip \in Clients, p \in Payloads, u \in UserIdInputs, id \in Ids :
          CreatePasteBegin(ip, p.content, p.format, u, id)
    \/ \E req \in Suspended, ok \in BOOLEAN : CreatePasteValidate(req, ok)
    \/ \E req \in Suspended, ok \in BOOLEAN : CreatePasteInsert(req, ok)
    \/ \E ip \in Clients, id \in Ids : ReadPasteBegin(ip, id)
    \/ \E req \in Suspended, ok \in BOOLEAN : ReadPasteSelect(req, ok)
    \/ \E ip \in Clients, id \in Ids : ReadPastesBegin(ip, id)
    \/ \E req \in Suspended, ok \in BOOLEAN : ReadPastesSelect(req, ok)

Spec == Init /\ [][Next]_vars

\* the limiter alone: unrouted requests of both client keys over the clock
NextLimiter ==
    \/ \E t \in Instants : Tick(t)
    \/ \E ip \in Clients : Unmatched(ip)

SpecLimiter == Init /\ [][NextLimiter]_vars

\* the handlers and the store: requests of one client at one instant, about
\* one user id
NextStore ==
    \/ \E id \in NewUserIds : CreateUserBegin("ip1", id)
    \/ \E req \in Suspended, ok \in BOOLEAN : CreateUserInsert(req, ok)
    \/ \E p \in Payloads, u \in NewUserIds \cup {JsNull}, id \in Ids :
          CreatePasteBegin("ip1", p.content, p.format, u, id)
    \/ \E req \in Suspended, ok \in BOOLEAN : CreatePasteValidate(req, ok)
    \/ \E req \in Suspended, ok \in BOOLEAN : CreatePasteInsert(req, ok)
    \/ \E id \in Ids : ReadPasteBegin("ip1", id)
    \/ \E req \in Suspended, ok \in BOOLEAN : ReadPasteSelect(req, ok)
    \/ \E id \in NewUserIds : ReadPastesBegin("ip1", id)
    \/ \E req \in Suspended, ok \in BOOLEAN : ReadPastesSelect(req, ok)

SpecStore == Init /\ [][NextStore]_vars

(* ------------------------------- claims -------------------------------- *)
\* a request that reached rateLimiter was answered last
LimiterAnswered == resp.status # 0 /\ resp.limiter # "skipped"

\* C1: with the first request of a window admitted at t0, the 11th request of
\* the key inside the window (t <= t0 + W) is rejected with status 429
C1_EleventhRejected ==
    (LimiterAnswered /\ resp.limiter # "reset"
        /\ resp.before = MAX_REQUESTS)
    => resp.status = 429

\* C2: every request passes rateLimiter before its route handler runs, and a
\* request answered 429 ran no handler
C2_LimiterBeforeHandler ==
    /\ \A req \in Suspended : req.limiter \in {"reset", "increment"}
    /\ (resp.status # 0 /\ resp.route \in Routes)
          => resp.limiter \in {"reset", "increment"}
    /\ resp.status = 429 => resp.route \notin Routes

\* C3: between one window reset and the next, a key has at most C = 10
\* requests admitted
C3_AtMostCAdmitted == \A k \in Clients : admitted[k] <= MAX_REQUESTS

\* C4: a request at time t of a key without a record, or with
\* t > windowStart + W, is admitted and leaves the record {count 1, windowStart t}
C4_FreshOrExpiredResets ==
    (LimiterAnswered
        /\ (resp.seen = NoClientData
              \/ resp.timestamp > resp.seen.lastRequestTime + RATE_LIMIT_WINDOW))
    => /\ resp.status # 429
       /\ resp.ip \in DOMAIN rateLimitMap
       /\ rateLimitMap[resp.ip] = [count |-> 1, lastRequestTime |-> resp.timestamp]
\* a key that had a request rejected in its window is admitted by a reset
C4_Witness ==
    /\ LimiterAnswered
    /\ resp.seen.count > MAX_REQUESTS
    /\ resp.before > resp.seen.count
    /\ resp.timestamp > resp.seen.lastRequestTime + RATE_LIMIT_WINDOW
    /\ resp.status = 404
    /\ rateLimitMap[resp.ip].count = 1
\* the suspended handler req resumes in this step
Resumes(req, route, pc) ==
    /\ req.route = route
    /\ req.pc = pc
    /\ CopiesIn(req, reqs') < CopiesIn(req, reqs)
\* ... and this step ends it / takes it on to its next await
Finished(req) == reqs' = reqs (-) SetToBag({req})
Continued(req, pc) ==
    reqs' = (reqs (-) SetToBag({req})) (+) SetToBag({[req EXCEPT !.pc = pc]})

IssuedPasteIds == {e.id : e \in issuedPastes}

\* C5: create-paste with a userid that is the id of no user (when validateUser
\* looks it up) answers 403 and leaves table pastes as it was
C5_UnknownOwnerRefused ==
    [][\A req \in Suspended :
         (Resumes(req, "create-paste", "validate") /\ req.userid \notin UserIds)
         => /\ Finished(req)
            /\ resp'.route = "create-paste"
            /\ resp'.userid = req.userid
            /\ resp'.status = 403
            /\ pastes' = pastes]_vars
\* a paste for an unknown owner was refused, its query having succeeded,
\* while the table held pastes
C5_Witness ==
    /\ resp.route = "create-paste"
    /\ resp.status = 403
    /\ ~resp.failed
    /\ resp.userid \notin UserIds
    /\ pastes # {}

\* the response to read-paste carries exactly one row, with e's content and format
ReturnsPaste(response, e) ==
    /\ response.status = 200
    /\ Cardinality(response.rows) = 1
    /\ \A row \in response.rows :
          row.id = e.id /\ row.content = e.content /\ row.format = e.format

C7_IssuedUserValidates ==
    [][\A req \in Suspended :
         (Resumes(req, "create-paste", "validate") /\ req.userid \in issuedUsers)
         => Continued(req, "insert")]_vars
\* C7 as amended: ... every later validateUser(u) whose query does not fail
\* returns true; one whose query fails returns false (create-paste answers 403)
C7_IssuedUserValidatesUnlessFailed ==
    [][\A req \in Suspended :
         (Resumes(req, "create-paste", "validate") /\ req.userid \in issuedUsers)
         => \/ Continued(req, "insert") /\ resp' = resp
            \/ /\ Finished(req)
               /\ resp'.route = "create-paste"
               /\ resp'.userid = req.userid
               /\ resp'.status = 403
               /\ resp'.failed]_vars
\* validateUser returned true for an issued user: its paste's INSERT is sent
C7_Witness ==
    \E req \in Suspended :
        /\ req.route = "create-paste"
        /\ req.pc = "insert"
        /\ req.userid \in issuedUsers

\* C8: read-pastes with an id that is the id of no user answers 403 without
\* rows (validation stops the request before the pastes query)
C8_UnknownOwnerForbidden ==
    (resp.route = "read-pastes" /\ resp.status # 0 /\ resp.id \notin UserIds)
    => (resp.status = 403 /\ resp.rows = {})

\* C9: a request one of whose store queries failed is answered 400
C9_StoreFailureIs400 == resp.failed => resp.status = 400

C11_OwnersExist ==
    /\ \A p \in pastes : p.userid # JsNull => \E u \in users : u.id = p.userid
    /\ \A req \in Suspended :
          (req.route = "create-paste" /\ req.pc = "insert" /\ ~Falsy(req.userid))
          => \E u \in users : u.id = req.userid
\* an owned paste exists while a create-user and an owned create-paste are in flight
C11_Witness ==
    /\ \E p \in pastes : p.userid # JsNull
    /\ \E req \in Suspended : req.route = "create-user"
    /\ \E req \in Suspended : req.route = "create-paste" /\ ~Falsy(req.userid)

\* C12: a row of users or pastes stays, with the same id, content, format and
\* userid, in every later state, and no second row takes its id
C12_WriteOnce ==
    [][/\ \A u \in users : u \in users'
       /\ \A p \in pastes : p \in pastes'
       /\ \A u \in users' : \A v \in users' : u.id = v.id => u = v
       /\ \A p \in pastes' : \A q \in pastes' : p.id = q.id => p = q]_vars
\* with both tables filled, a create-paste that drew the id of an existing
\* paste with another payload was refused and the row is as it was
C12_Witness ==
    /\ users # {}
    /\ Cardinality(pastes) = 2
    /\ resp.route = "create-paste"
    /\ resp.status = 400
    /\ \E e \in issuedPastes : e.id = resp.id /\ e.userid # resp.userid
    /\ \A e \in issuedPastes : \E p \in pastes :
          p.id = e.id /\ p.content = e.content /\ p.format = e.format
\* a request went through rateLimiter in this step
LimiterStep == resp' # resp /\ resp'.limiter # "skipped"
\* the other keys' records, as the map holds them
OthersKept(k) ==
    \A o \in Clients \ {k} :
       /\ (o \in DOMAIN rateLimitMap') = (o \in DOMAIN rateLimitMap)
       /\ MapGet(rateLimitMap', o) = MapGet(rateLimitMap, o)

\* C13: rateLimiter reads, tests and writes a key's record in one step, so the
\* record's count is the number of the key's requests admitted since its
\* lastRequestTime was last set, and no admitted request's update is lost
C13_CountIsAdmitted ==
    /\ \A k \in Clients : (k \in DOMAIN rateLimitMap) = (admitted[k] > 0)
    /\ \A k \in DOMAIN rateLimitMap : rateLimitMap[k].count = admitted[k]
\* requests of two keys alternated: both have a record, one has ten admitted
\* requests, the other at least two, and the last request was the other's
C13_Witness ==
    /\ DOMAIN rateLimitMap = Clients
    /\ \E k \in Clients :
          /\ admitted[k] = MAX_REQUESTS
          /\ resp.ip # k
          /\ admitted[resp.ip] >= 2
          /\ resp.limiter = "increment"

\* C14: a step in which rateLimiter rejects a request (429) leaves the whole
\* map as it was: the key's count and lastRequestTime, and every other record
C14_RejectChangesNothing ==
    [][(LimiterStep /\ resp'.status = 429) => rateLimitMap' = rateLimitMap]_vars
\* a request was rejected, its key's record is the one it found, and the other
\* key has a record too
C14_Witness ==
    /\ resp.status = 429
    /\ resp.limiter = "reject"
    /\ DOMAIN rateLimitMap = Clients
    /\ rateLimitMap[resp.ip] = resp.seen
    /\ resp.seen.count = MAX_REQUESTS + 1

\* C15: a request that finds a record of its key with
\* t <= lastRequestTime + RATE_LIMIT_WINDOW and count < MAX_REQUESTS is
\* admitted, the count grows by one and lastRequestTime stays; and each of the
\* first MAX_REQUESTS requests of a key in a window is admitted
C15_AdmittedWithinWindow ==
    LimiterAnswered =>
       /\ (/\ resp.seen # NoClientData
           /\ resp.timestamp <= resp.seen.lastRequestTime + RATE_LIMIT_WINDOW
           /\ resp.seen.count < MAX_REQUESTS)
          => /\ resp.status # 429
             /\ rateLimitMap[resp.ip].count = resp.seen.count + 1
             /\ rateLimitMap[resp.ip].lastRequestTime = resp.seen.lastRequestTime
       /\ (resp.seen = NoClientData \/ resp.before < MAX_REQUESTS)
          => resp.status # 429
\* the tenth request of a window, sent exactly at lastRequestTime + window, was
\* admitted into the same window
C15_Witness ==
    /\ LimiterAnswered
    /\ resp.seen.count = MAX_REQUESTS - 1
    /\ resp.before = MAX_REQUESTS - 1
    /\ resp.timestamp = resp.seen.lastRequestTime + RATE_LIMIT_WINDOW
    /\ resp.status # 429
    /\ rateLimitMap[resp.ip] = ClientData(MAX_REQUESTS, resp.seen.lastRequestTime)

\* C19: every record of rateLimitMap has 1 <= count <= MAX_REQUESTS + 1
C19_CountInRange ==
    \A k \in DOMAIN rateLimitMap :
       /\ 1 <= rateLimitMap[k].count
       /\ rateLimitMap[k].count <= MAX_REQUESTS + 1
\* a key at the top of the range had a further request rejected
C19_Witness ==
    /\ resp.status = 429
    /\ resp.before = MAX_REQUESTS + 1
    /\ rateLimitMap[resp.ip].count = MAX_REQUESTS + 1

\* C20: a request of one key leaves every other key's record as it was, and
\* whether a request is rejected is decided by its own key's record and the
\* time alone
C20_KeysIsolated ==
    /\ [](LimiterAnswered =>
            (resp.status = 429 <=>
               /\ resp.seen # NoClientData
               /\ resp.timestamp <= resp.seen.lastRequestTime + RATE_LIMIT_WINDOW
               /\ resp.seen.count > MAX_REQUESTS))
    /\ [][LimiterStep => OthersKept(resp'.ip)]_vars
\* a key was admitted while the other key's window was exhausted and running
C20_Witness ==
    /\ LimiterAnswered
    /\ resp.status # 429
    /\ \E o \in Clients \ {resp.ip} :
          /\ o \in DOMAIN rateLimitMap
          /\ rateLimitMap[o].count > MAX_REQUESTS
          /\ now <= rateLimitMap[o].lastRequestTime + RATE_LIMIT_WINDOW
\* C16: when the INSERT of create-user or create-paste fails (its id is
\* already a primary key, another constraint refuses the row, or the store
\* cannot be reached) the handler answers 400 and leaves users and pastes as
\* they were; an id already present is refused, never overwritten, and the
\* handler ends without another attempt
C16_InsertFailureIs400 ==
    [][\A req \in Suspended :
         /\ Resumes(req, "create-user", "insert") =>
               /\ Finished(req)
               /\ resp'.status \in {200, 400}
               /\ resp'.failed <=> resp'.status = 400
               /\ resp'.status = 400 => (users' = users /\ pastes' = pastes)
               /\ (\E u \in users : u.id = req.id) => resp'.status = 400
               /\ users \subseteq users'
         /\ Resumes(req, "create-paste", "insert") =>
               /\ Finished(req)
               /\ resp'.status \in {200, 400}
               /\ resp'.failed <=> resp'.status = 400
               /\ resp'.status = 400 => (users' = users /\ pastes' = pastes)
               /\ (\E p \in pastes : p.id = req.id) => resp'.status = 400
               /\ (~Falsy(req.userid) /\ ~\E u \in users : u.id = req.userid)
                  => resp'.status = 400
               /\ pastes \subseteq pastes']_vars
\* a create-user whose id is the id of a user was answered 400, with pastes
\* in the table
C16_Witness ==
    /\ resp.route = "create-user"
    /\ resp.status = 400
    /\ resp.failed
    /\ \E u \in users : u.id = resp.id
    /\ pastes # {}

\* C17: validateUser is true only when its query succeeds with at least one
\* row, false when there is no such user and false when the query fails; so a
\* create-paste whose validation is false, be it for a failed query on an
\* existing user, answers 403 and writes no row
C17_ValidateFailsClosed ==
    /\ [](\A ok \in BOOLEAN : \A rows \in SUBSET users :
            ValidateUserResult(ok, rows) <=> (ok /\ rows # {}))
    /\ [][\A req \in Suspended :
            Resumes(req, "create-paste", "validate") =>
               \/ /\ Continued(req, "insert")
                  /\ resp' = resp
                  /\ \E u \in users : u.id = req.userid
               \/ /\ Finished(req)
                  /\ resp'.status = 403
                  /\ resp'.failed \/ ~\E u \in users : u.id = req.userid
                  /\ pastes' = pastes
                  /\ users' = users]_vars
\* a create-paste was answered 403 because its validation query failed, the
\* owner being a user, and no paste of that id was written
C17_Witness ==
    /\ resp.route = "create-paste"
    /\ resp.status = 403
    /\ resp.failed
    /\ \E u \in users : u.id = resp.userid
    /\ ~\E p \in pastes : p.id = resp.id

\* C18: read-pastes answers 200 exactly when its pastes query succeeds and at
\* least one paste has userid = id, the rows being exactly those pastes; when
\* the query succeeds and no paste has that userid, user or not, it answers 404
C18_ReadPastesRows ==
    [][\A req \in Suspended :
         Resumes(req, "read-pastes", "select") =>
            LET owned == {p \in pastes : p.userid = req.id}
            IN /\ Finished(req)
               /\ resp'.status = 200 <=> (~resp'.failed /\ owned # {})
               /\ resp'.status = 200 => resp'.rows = owned
               /\ (~resp'.failed /\ owned = {}) => resp'.status = 404]_vars
\* read-pastes returned the pastes of a user and left out a paste of nobody
C18_Witness ==
    /\ resp.route = "read-pastes"
    /\ resp.status = 200
    /\ resp.rows = {p \in pastes : p.userid = resp.id}
    /\ resp.rows # pastes
    /\ \E u \in users : u.id = resp.id
====
